---- MODULE Spec2Model ----
(***************************************************************************)
(* beatnik: a text notation for drum tracks and its encoding as a MIDI     *)
(* file.                                                                   *)
(*                                                                         *)
(* Two state machines share this module.  Spec is ParseTrack of            *)
(* src/text.go, one step per token of the tokenized input.  SpecEnc is     *)
(* Track.MarshalBinary of src/unnamed/part_000, one step per chunk and per *)
(* hit.  The two files declare Hit differently (text.go builds             *)
(* Hit{notes, d} with a velocity per note, part_000 declares               *)
(* Hit{Notes, T, V} with one velocity per hit), so each machine uses the   *)
(* Hit of its own file.                                                    *)
(*                                                                         *)
(* A Go string is modelled as a sequence of one-character strings.         *)
(***************************************************************************)
EXTENDS Integers, Sequences, FiniteSets, TLC

VARIABLES
    tokens,   \* ParseTrack: tokenize(s)
    i,        \* ParseTrack: the range loop's index (0-based)
    t,        \* ParseTrack: the track being built
    pc,       \* ParseTrack: "loop" or "done" (returned)
    result,   \* ParseTrack: the returned *Track
    err,      \* ParseTrack: the returned error
    trk,      \* MarshalBinary: the receiver
    epc,      \* MarshalBinary: "header", "meta", "hits", "trailer" or "done"
    buf,      \* MarshalBinary: the bytes written so far
    k,        \* encodeHits: number of hits encoded
    buf2      \* encodeHits: the chunk body so far

vars == <<tokens, i, t, pc, result, err, trk, epc, buf, k, buf2>>
parseVars == <<tokens, i, t, pc, result, err>>
encVars == <<trk, epc, buf, k, buf2>>

(***************************************************************************)
(* Bounds of the model.                                                    *)
(***************************************************************************)
MaxTokens == 3
MaxHits == 2

(***************************************************************************)
(* Strings.                                                                *)
(***************************************************************************)
Digits == {"0", "1", "2", "3", "4", "5", "6", "7", "8", "9"}
Upper == {"A", "B", "C", "D", "E", "F", "G", "H", "I", "J", "K", "L", "M",
          "N", "O", "P", "Q", "R", "S", "T", "U", "V", "W", "X", "Y", "Z"}
Alnum == Digits \cup Upper
Space == {" ", "\t", "\n", "\f", "\r"}

DigitVal == ("0" :> 0) @@ ("1" :> 1) @@ ("2" :> 2) @@ ("3" :> 3) @@ ("4" :> 4) @@
            ("5" :> 5) @@ ("6" :> 6) @@ ("7" :> 7) @@ ("8" :> 8) @@ ("9" :> 9)

Last(s) == s[Len(s)]

AllIn(s, S) == \A n \in 1..Len(s) : s[n] \in S

\* The length of the longest prefix of s made of characters of S.
RECURSIVE PrefixLen(_, _)
PrefixLen(s, S) ==
    IF s = <<>> \/ Head(s) \notin S THEN 0 ELSE 1 + PrefixLen(Tail(s), S)

\* The index of the first character of s in S, 0 when there is none.
FirstIn(s, S) ==
    IF \E n \in 1..Len(s) : s[n] \in S
    THEN CHOOSE n \in 1..Len(s) : s[n] \in S /\ \A m \in 1..(n - 1) : s[m] \notin S
    ELSE 0

\* strings.Split(s, sep) for a one-character sep: always at least one piece.
RECURSIVE Split(_, _)
Split(s, sep) ==
    LET n == FirstIn(s, {sep})
    IN  IF n = 0 THEN <<s>>
        ELSE <<SubSeq(s, 1, n - 1)>> \o Split(SubSeq(s, n + 1, Len(s)), sep)

\* The value of a Go map at a key: the zero value when the key is absent.
Lookup(table, key) == IF key \in DOMAIN table THEN table[key] ELSE 0

\* The base-10 value of a string of digits.
RECURSIVE DecimalValue(_)
DecimalValue(s) ==
    IF s = <<>> THEN 0
    ELSE 10 * DecimalValue(SubSeq(s, 1, Len(s) - 1)) + DigitVal[Last(s)]

\* fmt.Sprint(n) of an n >= 0.
RECURSIVE Sprint(_)
Sprint(n) ==
    LET d == CHOOSE c \in Digits : DigitVal[c] = n % 10
    IN  IF n < 10 THEN <<d>> ELSE Append(Sprint(n \div 10), d)

(***************************************************************************)
(* The lexical tables.                                                     *)
(***************************************************************************)
PPP == 16
PP == 32
P == 48
MP == 64
MF == 80
F == 96
FF == 112
FFF == 127

velocities ==
    (<<"-", "-", "-", "-", "-">> :> PPP) @@
    (<<"-", "-", "-", "-">> :> PP) @@
    (<<"-", "-", "-">> :> P) @@
    (<<"-", "-">> :> MP) @@
    (<<"-">> :> MF) @@
    (<<>> :> F) @@
    (<<"+">> :> FF) @@
    (<<"+", "+">> :> FFF)

Quarter == 96

baseDurations ==
    (<<"~", "~">> :> Quarter * 4) @@
    (<<"~">> :> Quarter * 2) @@
    (<<>> :> Quarter) @@
    (<<".">> :> Quarter \div 2) @@
    (<<".", ".">> :> Quarter \div 4) @@
    (<<".", ".", ".">> :> Quarter \div 8) @@
    (<<".", ".", ".", ".">> :> Quarter \div 16) @@
    (<<".", ".", ".", ".", ".">> :> Quarter \div 32)

\* init adds a triplet to every duration.  The loop ranges over the map it
\* inserts into, so it may also visit the keys it has added and add keys
\* ending in ">>"; no token that hitToken or waitToken matches has such a
\* suffix, and the entries of the keys below never change.
durations ==
    baseDurations @@
    [d \in {Append(b, ">") : b \in DOMAIN baseDurations} |->
        (baseDurations[SubSeq(d, 1, Len(d) - 1)] * 2) \div 3]

ByteMax == 255

\* The alias table (names of drums) is set in a file outside the modelled
\* sources; inputs name drums by number.
ezDrummer == [a \in {} |-> 0]

\* drumNotes after init: fmt.Sprint(n) -> n for n in 1..255, then the aliases.
drumNotes(id) ==
    IF id \in DOMAIN ezDrummer THEN ezDrummer[id]
    ELSE IF id # <<>> /\ Len(id) <= 3 /\ AllIn(id, Digits)
            /\ DecimalValue(id) \in 1..ByteMax /\ Sprint(DecimalValue(id)) = id
         THEN DecimalValue(id)
         ELSE 0

(***************************************************************************)
(* The regular expressions, each by the strings it matches and the groups  *)
(* it captures.                                                            *)
(***************************************************************************)

\* comment.ReplaceAllString(s, ""): "#[^\n]*" removed.
RECURSIVE StripComments(_)
StripComments(s) ==
    IF s = <<>> THEN <<>>
    ELSE IF Head(s) = "#"
         THEN LET n == FirstIn(s, {"\n"})
              IN  IF n = 0 THEN <<>> ELSE StripComments(SubSeq(s, n, Len(s)))
         ELSE <<Head(s)>> \o StripComments(Tail(s))

\* tokenizer.Split(s, -1) with the empty pieces dropped.
RECURSIVE Fields(_)
Fields(s) ==
    IF s = <<>> THEN <<>>
    ELSE IF Head(s) \in Space THEN Fields(Tail(s))
         ELSE LET n == FirstIn(s, Space)
              IN  IF n = 0 THEN <<s>>
                  ELSE <<SubSeq(s, 1, n - 1)>> \o Fields(SubSeq(s, n, Len(s)))

tokenize(s) == Fields(StripComments(s))

\* "(?:\.*|~*)>?" matching the whole of s.
DurationSuffix(s) ==
    LET core == IF s # <<>> /\ Last(s) = ">" THEN SubSeq(s, 1, Len(s) - 1) ELSE s
    IN  AllIn(core, {"."}) \/ AllIn(core, {"~"})

\* noteToken "^([0-9A-Z]+)(\+*|-*)$": group 1 and group 2 of a match.
NoteGroup1(s) == SubSeq(s, 1, PrefixLen(s, Alnum))
NoteGroup2(s) == SubSeq(s, PrefixLen(s, Alnum) + 1, Len(s))
noteToken(s) ==
    /\ NoteGroup1(s) # <<>>
    /\ AllIn(NoteGroup2(s), {"+"}) \/ AllIn(NoteGroup2(s), {"-"})

\* hitToken: an optional "(", group 1 (the notes), group 2 (the duration
\* suffix), an optional ")".  The characters of the notes and those of the
\* suffix are disjoint, which makes the split unique.
HitInner(s) ==
    LET a == IF s # <<>> /\ Head(s) = "(" THEN Tail(s) ELSE s
    IN  IF a # <<>> /\ Last(a) = ")" THEN SubSeq(a, 1, Len(a) - 1) ELSE a
HitGroup1(s) == SubSeq(HitInner(s), 1, PrefixLen(HitInner(s), Alnum \cup {"+", "-", ","}))
HitGroup2(s) == SubSeq(HitInner(s), Len(HitGroup1(s)) + 1, Len(HitInner(s)))
hitToken(s) ==
    /\ \A n \in 1..Len(Split(HitGroup1(s), ",")) : noteToken(Split(HitGroup1(s), ",")[n])
    /\ DurationSuffix(HitGroup2(s))

\* waitToken "^(?:\.*|~*)>?$".
waitToken(s) == DurationSuffix(s)

\* directiveToken "^([^:]+):(.*)$": the name ends at the first colon.
directiveToken(s) == FirstIn(s, {":"}) > 1
DirectiveGroup1(s) == SubSeq(s, 1, FirstIn(s, {":"}) - 1)
DirectiveGroup2(s) == SubSeq(s, FirstIn(s, {":"}) + 1, Len(s))

parenthesized(s) == Len(s) > 0 /\ s[1] = "(" /\ s[Len(s)] = ")"

halfParenthesized(s) ==
    /\ Len(s) > 0
    /\ \/ s[1] = "(" /\ s[Len(s)] # ")"
       \/ s[1] # "(" /\ s[Len(s)] = ")"

(***************************************************************************)
(* The parser.                                                             *)
(***************************************************************************)
NoNotes == [n \in {} |-> 0]
NoHit == [Notes |-> NoNotes, T |-> 0]

\* parseNotes: the loop over the parts, notes being the map built so far.
RECURSIVE parseNotesLoop(_, _)
parseNotesLoop(parts, notes) ==
    IF parts = <<>> THEN [err |-> "", notes |-> notes]
    ELSE LET part == Head(parts)
             note == drumNotes(NoteGroup1(part))
             v == Lookup(velocities, NoteGroup2(part))
         IN  IF ~noteToken(part) THEN [err |-> "bad note token", notes |-> NoNotes]
             ELSE IF note = 0 THEN [err |-> "bad drum number", notes |-> NoNotes]
             ELSE IF v = 0 THEN [err |-> "bad velocity", notes |-> NoNotes]
             ELSE parseNotesLoop(Tail(parts), (note :> v) @@ notes)

parseNotes(s) == parseNotesLoop(Split(s, ","), NoNotes)

\* parseHit without the test of line 155.
parseHitAnyDuration(s) ==
    LET notes == parseNotes(HitGroup1(s))
        d == Lookup(durations, HitGroup2(s))
    IN  IF ~hitToken(s) THEN [err |-> "bad hit", hit |-> NoHit]
        ELSE IF notes.err # "" THEN [err |-> notes.err, hit |-> NoHit]
        ELSE [err |-> "", hit |-> [Notes |-> notes.notes, T |-> d]]

parseHit(s) ==
    LET notes == parseNotes(HitGroup1(s))
        d == Lookup(durations, HitGroup2(s))
    IN  IF ~hitToken(s) THEN [err |-> "bad hit", hit |-> NoHit]
        ELSE IF notes.err # "" THEN [err |-> notes.err, hit |-> NoHit]
        ELSE IF d = 0 THEN [err |-> "bad duration", hit |-> NoHit]
        ELSE [err |-> "", hit |-> [Notes |-> notes.notes, T |-> d]]

\* strconv.Atoi of a string shorter than 19 characters: an optional sign,
\* then one or more decimal digits.
Atoi(s) ==
    LET signed == s # <<>> /\ Head(s) \in {"+", "-"}
        digits == IF signed THEN Tail(s) ELSE s
    IN  IF digits = <<>> \/ ~AllIn(digits, Digits) THEN [ok |-> FALSE, val |-> 0]
        ELSE [ok |-> TRUE,
              val |-> IF signed /\ Head(s) = "-" THEN 0 - DecimalValue(digits)
                      ELSE DecimalValue(digits)]

MinBPM == 1
MaxBPM == 500

\* bpmDirective with the lower bound off by one.
bpmDirectiveFromZero(track, s) ==
    LET bpm == Atoi(s)
    IN  IF ~bpm.ok THEN [err |-> "bad input to BPM", t |-> track]
        ELSE IF bpm.val < 0 \/ bpm.val > MaxBPM THEN [err |-> "bad BPM", t |-> track]
        ELSE [err |-> "", t |-> [track EXCEPT !.BPM = bpm.val]]

bpmDirective(track, s) ==
    LET bpm == Atoi(s)
    IN  IF ~bpm.ok THEN [err |-> "bad input to BPM", t |-> track]
        ELSE IF bpm.val < MinBPM \/ bpm.val > MaxBPM THEN [err |-> "bad BPM", t |-> track]
        ELSE [err |-> "", t |-> [track EXCEPT !.BPM = bpm.val]]

\* The directives table has the one entry "bpm".
parseDirective(track, s) ==
    IF ~directiveToken(s) THEN [err |-> "bad directive", t |-> track]
    ELSE IF DirectiveGroup1(s) # <<"b", "p", "m">>
         THEN [err |-> "unknown directive", t |-> track]
         ELSE bpmDirective(track, DirectiveGroup2(s))

\* Line 98: the test on a grace note against the hit before it.
\* GraceAsLong is the test with < for <=.
GraceAsLong(last, h) == last.T < h.T
GraceTooLong(last, h) == last.T <= h.T

\* Lines 97 and 103: the hit before a grace note gives it its time.
\* ShortenNothing is the assignment left out.
ShortenNothing(hits, h) == hits
ShortenLast(hits, h) == [hits EXCEPT ![Len(hits)].T = @ - h.T]

\* Line 116: a wait lengthens the last hit.
\* ExtendFirst is the assignment with index 0.
ExtendFirst(hits, d) == [hits EXCEPT ![1].T = @ + d]
ExtendLast(hits, d) == [hits EXCEPT ![Len(hits)].T = @ + d]

\* Line 113.  AlwaysPreceded is the test left out.
AlwaysPreceded(track) == FALSE
NoPrecedingNote(track) == Len(track.Hits) = 0

Nil == [nil |-> TRUE, Hits |-> <<>>, BPM |-> 0]
Ptr(track) == [nil |-> FALSE, Hits |-> track.Hits, BPM |-> track.BPM]
NoErr == [idx |-> -1, cause |-> ""]

\* "return nil, fmt.Errorf(...)": the track returned beside an error.
\* ErrResultPartial is "return t, fmt.Errorf(...)".
ErrResultPartial(track) == Ptr(track)
ErrResult(track) == Nil

\* The token index each case formats into its error.
HitErrIndex(n) == n
WaitErrIndex(n) == n + 1
DirectiveErrIndex(n) == n
DefaultErrIndex(n) == n + 1

Fail(idx, cause) ==
    /\ pc' = "done"
    /\ result' = ErrResult(t)
    /\ err' = [idx |-> idx, cause |-> cause]
    /\ UNCHANGED <<tokens, i, t, encVars>>

Continue(track) ==
    /\ t' = track
    /\ i' = i + 1
    /\ UNCHANGED <<tokens, pc, result, err, encVars>>

Looping == pc = "loop" /\ i < Len(tokens)
token == tokens[i + 1]

HitCase ==
    /\ Looping
    /\ hitToken(token)
    /\ IF halfParenthesized(token) THEN Fail(HitErrIndex(i), "half parenthesized")
       ELSE LET grace == parenthesized(token)
                body == IF grace THEN SubSeq(token, 2, Len(token) - 1) ELSE token
                h == parseHit(body)
                shorten == grace /\ Len(t.Hits) > 0
            IN  IF h.err # "" THEN Fail(HitErrIndex(i), h.err)
                ELSE IF shorten /\ GraceTooLong(Last(t.Hits), h.hit)
                     THEN Fail(HitErrIndex(i), "grace note is too long")
                     ELSE Continue([t EXCEPT !.Hits =
                              Append(IF shorten THEN ShortenLast(t.Hits, h.hit) ELSE t.Hits,
                                     h.hit)])

WaitCase ==
    /\ Looping
    /\ ~hitToken(token)
    /\ waitToken(token)
    /\ LET d == Lookup(durations, token)
       IN  IF d = 0 THEN Fail(WaitErrIndex(i), "bad duration")
           ELSE IF NoPrecedingNote(t)
                THEN Fail(WaitErrIndex(i), "duration with no preceding note")
                ELSE Continue([t EXCEPT !.Hits = ExtendLast(t.Hits, d)])

DirectiveCase ==
    /\ Looping
    /\ ~hitToken(token)
    /\ ~waitToken(token)
    /\ directiveToken(token)
    /\ LET r == parseDirective(t, token)
       IN  IF r.err # "" THEN Fail(DirectiveErrIndex(i), r.err)
           ELSE Continue(r.t)

DefaultCase ==
    /\ Looping
    /\ ~hitToken(token)
    /\ ~waitToken(token)
    /\ ~directiveToken(token)
    /\ Fail(DefaultErrIndex(i), "unrecognized token")

Return ==
    /\ pc = "loop"
    /\ i = Len(tokens)
    /\ pc' = "done"
    /\ result' = Ptr(t)
    /\ err' = NoErr
    /\ UNCHANGED <<tokens, i, t, encVars>>

(***************************************************************************)
(* float64 arithmetic.  A positive float64 is [m, e]: m its 53-bit         *)
(* significand as a sequence of bits, most significant (a 1) first, and e  *)
(* the exponent of its last bit, the value being m * 2^e.  Every operation *)
(* rounds its exact result to nearest, ties to even.                       *)
(***************************************************************************)
Precision == 53

\* Whole numbers are computed in limbs of LimbBits bits, most significant
\* first, so that no intermediate value leaves the 32-bit integers of the
\* checker.
LimbBits == 10
LimbBase == 1024

StripZeros(bits) ==
    LET n == FirstIn(bits, {1})
    IN  IF n = 0 THEN <<>> ELSE SubSeq(bits, n, Len(bits))

BitsToLimbs(bits) ==
    LET pad == (LimbBits - (Len(bits) % LimbBits)) % LimbBits
        b == [j \in 1..pad |-> 0] \o bits
    IN  [l \in 1..(Len(b) \div LimbBits) |->
            LET o == (l - 1) * LimbBits
            IN  b[o + 1] * 512 + b[o + 2] * 256 + b[o + 3] * 128 + b[o + 4] * 64
                + b[o + 5] * 32 + b[o + 6] * 16 + b[o + 7] * 8 + b[o + 8] * 4
                + b[o + 9] * 2 + b[o + 10]]

LimbsToBits(limbs) ==
    [j \in 1..(LimbBits * Len(limbs)) |->
        (limbs[((j - 1) \div LimbBits) + 1]
            \div (2 ^ (LimbBits - 1 - ((j - 1) % LimbBits)))) % 2]

RECURSIVE ToLimbs(_)
ToLimbs(n) == IF n = 0 THEN <<>> ELSE Append(ToLimbs(n \div LimbBase), n % LimbBase)

RECURSIVE FromLimbs(_)
FromLimbs(limbs) ==
    IF limbs = <<>> THEN 0
    ELSE LimbBase * FromLimbs(SubSeq(limbs, 1, Len(limbs) - 1)) + Last(limbs)

FromBits(bits) == FromLimbs(BitsToLimbs(bits))

\* limbs * c + carry, for a c below 2^20.
RECURSIVE MulLimbs(_, _, _)
MulLimbs(limbs, c, carry) ==
    IF limbs = <<>> THEN ToLimbs(carry)
    ELSE LET d == Last(limbs) * c + carry
         IN  Append(MulLimbs(SubSeq(limbs, 1, Len(limbs) - 1), c, d \div LimbBase),
                    d % LimbBase)

MulBits(bits, c) == StripZeros(LimbsToBits(MulLimbs(BitsToLimbs(bits), c, 0)))

IncBits(bits) ==
    LET z == {j \in 1..Len(bits) : bits[j] = 0}
        p == CHOOSE j \in z : \A q \in z : q <= j
    IN  IF z = {} THEN <<1>> \o [j \in 1..Len(bits) |-> 0]
        ELSE [j \in 1..Len(bits) |-> IF j < p THEN bits[j] ELSE IF j = p THEN 1 ELSE 0]

\* The float64 nearest to bits * 2^e (plus, with sticky, a nonzero amount
\* below the last bit); bits starts with a 1.
RoundFloat(bits, sticky, e) ==
    LET n == Len(bits)
    IN  IF n <= Precision
        THEN [m |-> bits \o [j \in 1..(Precision - n) |-> 0], e |-> e - (Precision - n)]
        ELSE LET keep == SubSeq(bits, 1, Precision)
                 half == bits[Precision + 1]
                 rest == sticky \/ \E j \in (Precision + 2)..n : bits[j] = 1
                 up == half = 1 /\ (rest \/ keep[Precision] = 1)
                 m == IF up THEN IncBits(keep) ELSE keep
             IN  IF Len(m) > Precision
                 THEN [m |-> SubSeq(m, 1, Precision), e |-> e + (n - Precision) + 1]
                 ELSE [m |-> m, e |-> e + (n - Precision)]

\* The long division rem / b continued for n limbs of binary places.
RECURSIVE DivLimbs(_, _, _)
DivLimbs(rem, b, n) ==
    IF n = 0 THEN [limbs |-> <<>>, rem |-> rem]
    ELSE LET rest == DivLimbs((rem * LimbBase) % b, b, n - 1)
         IN  [limbs |-> <<(rem * LimbBase) \div b>> \o rest.limbs, rem |-> rest.rem]

\* Enough binary places for Precision + 1 significant bits of 1 / b, b < 2^10.
FractionLimbs == 7

\* 1 / float64(b), for an integer b in 1..1023.
FloatInverse(b) ==
    LET q == DivLimbs(1 % b, b, FractionLimbs)
        whole == IF 1 \div b = 1 THEN <<1>> ELSE <<>>
    IN  RoundFloat(StripZeros(whole \o LimbsToBits(q.limbs)), q.rem # 0,
                   0 - FractionLimbs * LimbBits)

\* x * c for a float64 x and a small integer constant c.
FloatTimes(x, c) == RoundFloat(MulBits(x.m, c), FALSE, x.e)

\* uint32(x) for a float64 x with 0 < x < 2^31: the fraction is dropped.
FloatToUint32(x) ==
    IF x.e >= 0 THEN FromBits(x.m \o [j \in 1..x.e |-> 0])
    ELSE IF 0 - x.e >= Precision THEN 0
    ELSE FromBits(SubSeq(x.m, 1, Precision + x.e))

\* Lines 45-46: uint32(1 / float64(BPM) * 60 * 1000000).
Uspb(bpm) == FloatToUint32(FloatTimes(FloatTimes(FloatInverse(bpm), 60), 1000000))

(***************************************************************************)
(* The encoder.  Bytes are numbers in 0..255.                              *)
(***************************************************************************)

\* bin: the four bytes of a uint32, most significant first.
bin(v) == <<(v \div 16777216) % 256, (v \div 65536) % 256, (v \div 256) % 256, v % 256>>

\* uvarint: a variable-length quantity, groups of seven bits, most
\* significant first, every byte but the last with its high bit set.
RECURSIVE uvarintHigh(_)
uvarintHigh(v) ==
    IF v = 0 THEN <<>> ELSE Append(uvarintHigh(v \div 128), 128 + (v % 128))

uvarint(v) == Append(uvarintHigh(v \div 128), v % 128)

MThd == <<77, 84, 104, 100>>
MTrk == <<77, 84, 114, 107>>
TimeSignature == <<0, 255, 88, 4, 4, 2, 24, 8>>
SetTempo == <<0, 255, 81, 3>>
EndOfTrack == <<0, 255, 47, 0>>
NoteOn == 153
NoteOff == 137
OffVelocity == 64

encodeHeaderChunk ==
    MThd \o bin(6) \o <<0, 1>> \o <<0, 2>> \o <<0, Quarter>>

encodeMetaChunk(track) ==
    LET uspb == Uspb(track.BPM)
        body == TimeSignature \o SetTempo \o Tail(bin(uspb)) \o EndOfTrack
    IN  MTrk \o bin(Len(body)) \o body

NewHit(ticks, v, notes) == [Notes |-> notes, T |-> ticks, V |-> v]

\* The orders in which a range over a map with the keys S may produce them.
Orders(S) ==
    {o \in [1..Cardinality(S) -> S] : \A a, b \in 1..Cardinality(S) : a # b => o[a] # o[b]}

RECURSIVE Concat(_)
Concat(ss) == IF ss = <<>> THEN <<>> ELSE Head(ss) \o Concat(Tail(ss))

\* The delta-time of the n-th note-off of h.
\* OffDeltaEvery is the loop without the flag first.
OffDeltaEvery(h, n) == uvarint(h.T)
OffDelta(h, n) == IF n = 1 THEN uvarint(h.T) ELSE uvarint(0)

\* The velocity byte of a note-on of h.
OnVelocity(h, note) == h.V

\* Hit.encode, the first range producing the notes in the order on and the
\* second in the order off.
HitEncode(h, on, off) ==
    Concat([n \in 1..Len(on) |-> <<0, NoteOn, on[n], OnVelocity(h, on[n])>>]) \o
    Concat([n \in 1..Len(off) |-> OffDelta(h, n) \o <<NoteOff, off[n], OffVelocity>>])

EncodeHeaderChunk ==
    /\ epc = "header"
    /\ buf' = buf \o encodeHeaderChunk
    /\ epc' = "meta"
    /\ UNCHANGED <<trk, k, buf2, parseVars>>

EncodeMetaChunk ==
    /\ epc = "meta"
    /\ buf' = buf \o encodeMetaChunk(trk)
    /\ epc' = "hits"
    /\ UNCHANGED <<trk, k, buf2, parseVars>>

\* encodeHits: one turn of the loop.
EncodeHit ==
    /\ epc = "hits"
    /\ k < Len(trk.Hits)
    /\ \E on, off \in Orders(trk.Hits[k + 1].Notes) :
          buf2' = buf2 \o HitEncode(trk.Hits[k + 1], on, off)
    /\ k' = k + 1
    /\ UNCHANGED <<trk, epc, buf, parseVars>>

\* encodeHits after the loop, and the Write of its chunk.
EncodeHitsChunk ==
    /\ epc = "hits"
    /\ k = Len(trk.Hits)
    /\ LET body == buf2 \o EndOfTrack
       IN  /\ buf2' = body
           /\ buf' = buf \o MTrk \o bin(Len(body)) \o body
    /\ epc' = "done"
    /\ UNCHANGED <<trk, k, parseVars>>

(***************************************************************************)
(* Inputs.                                                                 *)
(***************************************************************************)
Words == {
    <<"3", "6">>,
    <<"3", "6", ",", "3", "8", "+", ".">>,
    <<"(", "3", "8", ".", ")">>,
    <<"(", "3", "6", ")">>,
    <<".">>,
    <<"~", ">">>,
    <<"(", "3", "8">>,
    <<"0">>,
    <<"3", "6", "+", "+", "+">>,
    <<"3", "6", "~", "~", "~">>,
    <<"~", "~", "~">>,
    <<"3", "6", "+", "-">>,
    <<"f", "o", "o", ":", "1">>,
    <<"b", "p", "m", ":", "1", "2", "0">>,
    <<"b", "p", "m", ":", "+", "7">>,
    <<"b", "p", "m", ":", "1">>,
    <<"b", "p", "m", ":", "5", "0", "0">>,
    <<"b", "p", "m", ":", "5", "0", "1">>,
    <<"b", "p", "m", ":", "0">>,
    <<"b", "p", "m", ":", "-", "1">>,
    <<"b", "p", "m", ":", "1", "x">>,
    <<"#", ".", "\n">> }

RECURSIVE Join(_, _)
Join(ws, sep) ==
    IF ws = <<>> THEN <<>>
    ELSE IF Len(ws) = 1 THEN Head(ws)
    ELSE Head(ws) \o sep \o Join(Tail(ws), sep)

Texts == {Join(ws, <<" ">>) : ws \in UNION {[1..n -> Words] : n \in 0..MaxTokens}}

EmptyTrack == [Hits |-> <<>>, BPM |-> 0]

EncHits == {
    NewHit(96, F, {36}),
    NewHit(192, FFF, {36, 38}),
    NewHit(20000, PPP, {36, 38, 42}),
    NewHit(0, MP, {38}),
    NewHit(96, F, {}) }

EncTracks ==
    {[Hits |-> <<>>, BPM |-> b] : b \in MinBPM..MaxBPM} \cup
    {[Hits |-> hs, BPM |-> 120] : hs \in UNION {[1..n -> EncHits] : n \in 1..MaxHits}}

(***************************************************************************)
(* ParseTrack(s) for the texts s.                                          *)
(***************************************************************************)
Init ==
    /\ \E s \in Texts : tokens = tokenize(s)
    /\ i = 0
    /\ t = EmptyTrack
    /\ pc = "loop"
    /\ result = Nil
    /\ err = NoErr
    /\ trk = EmptyTrack
    /\ epc = "idle"
    /\ buf = <<>>
    /\ k = 0
    /\ buf2 = <<>>

Next == HitCase \/ WaitCase \/ DirectiveCase \/ DefaultCase \/ Return

Spec == Init /\ [][Next]_vars

(***************************************************************************)
(* MarshalBinary of the tracks.                                            *)
(***************************************************************************)
InitEnc ==
    /\ tokens = <<>>
    /\ i = 0
    /\ t = EmptyTrack
    /\ pc = "idle"
    /\ result = Nil
    /\ err = NoErr
    /\ trk \in EncTracks
    /\ epc = "header"
    /\ buf = <<>>
    /\ k = 0
    /\ buf2 = <<>>

NextEnc == EncodeHeaderChunk \/ EncodeMetaChunk \/ EncodeHit \/ EncodeHitsChunk

SpecEnc == InitEnc /\ [][NextEnc]_vars

(***************************************************************************)
(* Properties of ParseTrack (checked under Spec).                          *)
(***************************************************************************)
Returned == pc = "done"
Failed == pc = "done" /\ err # NoErr
Succeeded == pc = "done" /\ err = NoErr /\ ~result.nil
FailsNow == pc' = "done" /\ err' # NoErr /\ result' = Nil

W36 == <<"3", "6">>
WGrace38Half == <<"(", "3", "8", ".", ")">>
WGrace36 == <<"(", "3", "6", ")">>
WDot == <<".">>
WBpm120 == <<"b", "p", "m", ":", "1", "2", "0">>
WBpm7 == <<"b", "p", "m", ":", "+", "7">>

IsBpmDirective(tok) == Len(tok) >= 4 /\ SubSeq(tok, 1, 4) = <<"b", "p", "m", ":">>
BpmValue(tok) == SubSeq(tok, 5, Len(tok))

\* C1: a bpm directive whose value is a base-10 integer in [1,500] succeeds
\* and sets the tempo to that value, whatever the tempo was; any other value
\* (<= 0, > 500, not a number) makes the parse fail.
C1_BpmDirective ==
    [][(Looping /\ IsBpmDirective(token)) =>
        LET n == Atoi(BpmValue(token))
        IN  IF n.ok /\ n.val >= 1 /\ n.val <= 500
            THEN pc' = "loop" /\ err' = NoErr /\ t'.BPM = n.val /\ t'.Hits = t.Hits
            ELSE FailsNow]_vars

C1_Witness ==
    /\ pc = "loop" /\ i = 2
    /\ tokens[1] = WBpm120 /\ tokens[2] = WBpm7
    /\ t.BPM = 7

IsGrace(tok) == hitToken(tok) /\ parenthesized(tok)
GraceHit(tok) == parseHit(SubSeq(tok, 2, Len(tok) - 1))

\* C2: a grace note of duration g after a hit of duration D: when g < D the
\* hit before it is shortened to D - g and the grace note appended with g;
\* when g >= D the parse fails.
C2_GraceNote ==
    [][(Looping /\ IsGrace(token) /\ GraceHit(token).err = "" /\ Len(t.Hits) > 0) =>
        LET g == GraceHit(token).hit.T
            n == Len(t.Hits)
            D == t.Hits[n].T
        IN  IF g < D
            THEN /\ pc' = "loop"
                 /\ Len(t'.Hits) = n + 1
                 /\ t'.Hits[n].T = D - g
                 /\ t'.Hits[n].Notes = t.Hits[n].Notes
                 /\ \A j \in 1..(n - 1) : t'.Hits[j] = t.Hits[j]
                 /\ t'.Hits[n + 1] = GraceHit(token).hit
                 /\ t'.Hits[n + 1].T = g
            ELSE FailsNow]_vars

C2_Witness ==
    /\ pc = "loop" /\ i = 2
    /\ tokens[1] = W36 /\ tokens[2] = WGrace38Half
    /\ Len(t.Hits) = 2 /\ t.Hits[1].T = 48 /\ t.Hits[2].T = 48

\* C3: every failure is reported with the 1-based index of the offending
\* token (the token the loop stopped at).
C3_ErrorIndexOneBased == Failed => err.idx = i + 1

\* C6: in a track returned without error every hit has at least one note and
\* a duration above 0, and every velocity is one of the eight levels.
C6_HitInvariant ==
    Succeeded =>
        \A j \in 1..Len(result.Hits) :
            /\ DOMAIN result.Hits[j].Notes # {}
            /\ result.Hits[j].T > 0
            /\ \A n \in DOMAIN result.Hits[j].Notes :
                  result.Hits[j].Notes[n] \in {16, 32, 48, 64, 80, 96, 112, 127}

C6_Witness ==
    /\ Succeeded
    /\ tokens = <<W36, WGrace38Half, WDot>>
    /\ Len(result.Hits) = 2 /\ result.Hits[1].T = 48 /\ result.Hits[2].T = 96

\* C7: a wait token with a recognized duration suffix after at least one hit
\* adds its ticks to the duration of the last hit and changes nothing else:
\* not that hit's notes, not an earlier hit, not the number of hits, not the
\* tempo.
C7_WaitExtendsLast ==
    [][(Looping /\ token \in DOMAIN durations /\ Len(t.Hits) > 0) =>
        LET n == Len(t.Hits)
        IN  /\ pc' = "loop"
            /\ Len(t'.Hits) = n
            /\ t'.Hits[n].T = t.Hits[n].T + durations[token]
            /\ t'.Hits[n].Notes = t.Hits[n].Notes
            /\ \A j \in 1..(n - 1) : t'.Hits[j] = t.Hits[j]
            /\ t'.BPM = t.BPM]_vars

C7_Witness ==
    /\ pc = "loop" /\ i = 3
    /\ tokens = <<W36, WGrace38Half, WDot>>
    /\ Len(t.Hits) = 2 /\ t.Hits[1].T = 48 /\ t.Hits[2].T = 96

\* C8: a wait token with no hit token before it makes ParseTrack return an
\* error and no track.
C8_WaitBeforeHit ==
    (Returned /\ \E j \in 1..Len(tokens) :
                    /\ waitToken(tokens[j])
                    /\ \A l \in 1..(j - 1) : ~hitToken(tokens[l]))
        => result = Nil /\ err # NoErr

C8_Witness ==
    /\ Returned
    /\ tokens = <<WBpm120, WDot>>
    /\ i = 1
    /\ err.cause = "duration with no preceding note"

\* C9: parsing stops at the first erroneous token and returns nothing: no
\* track, not even the hits parsed before it, and no token after it is
\* processed.
C9_StopsAtFirstError ==
    Failed => /\ result = Nil
              /\ i < Len(tokens)
              /\ ~ENABLED Next

C9_Witness ==
    /\ Failed
    /\ Len(tokens) = 3 /\ i = 1
    /\ Len(t.Hits) = 1

RECURSIVE SumT(_)
SumT(hits) == IF hits = <<>> THEN 0 ELSE Head(hits).T + SumT(Tail(hits))

IsHitShape(tok) == Head(tok) \in Alnum \cup {"("}

\* The ticks token n of toks adds to the track's length according to the
\* claim: a wait or a hit that is no grace note adds its duration, a grace
\* note adds nothing.
ClaimedTicks(toks, n) ==
    LET tok == toks[n]
    IN  IF tok \in DOMAIN durations THEN durations[tok]
        ELSE IF ~IsHitShape(tok) THEN 0
        ELSE IF Head(tok) = "(" THEN 0
        ELSE Lookup(durations, HitGroup2(tok))

\* The same, but a grace note with no hit before it adds its own duration.
ActualTicks(toks, n) ==
    LET tok == toks[n]
    IN  IF IsHitShape(tok) /\ Head(tok) = "(" /\ \A l \in 1..(n - 1) : ~IsHitShape(toks[l])
        THEN Lookup(durations, HitGroup2(tok))
        ELSE ClaimedTicks(toks, n)

RECURSIVE SumClaimed(_, _)
SumClaimed(toks, n) == IF n = 0 THEN 0 ELSE SumClaimed(toks, n - 1) + ClaimedTicks(toks, n)

RECURSIVE SumActual(_, _)
SumActual(toks, n) == IF n = 0 THEN 0 ELSE SumActual(toks, n - 1) + ActualTicks(toks, n)

\* C10 as stated: the durations of the hits of a returned track add up to
\* the durations of the hit tokens that are no grace notes and of the wait
\* tokens.
C10_TotalLength == Succeeded => SumT(result.Hits) = SumClaimed(tokens, Len(tokens))

\* C10 as amended: a grace note borrows from the hit before it; a grace note
\* with no hit before it is appended with its own duration, which counts.
C10_TotalLengthAmended == Succeeded => SumT(result.Hits) = SumActual(tokens, Len(tokens))

C10_Witness ==
    /\ Succeeded
    /\ tokens = <<WGrace36, WGrace38Half, WDot>>
    /\ SumT(result.Hits) = 144
    /\ result.Hits[1].T = 48

(***************************************************************************)
(* Properties of MarshalBinary (checked under SpecEnc).                    *)
(***************************************************************************)
BE(bytes) ==
    IF Len(bytes) = 3 THEN (bytes[1] * 256 + bytes[2]) * 256 + bytes[3]
    ELSE ((bytes[1] * 256 + bytes[2]) * 256 + bytes[3]) * 256 + bytes[4]

\* The chunk of bytes that starts at pos: its tag, its length field, the
\* body that the length field announces, and where the next chunk starts.
ChunkAt(bytes, pos) ==
    LET n == BE(SubSeq(bytes, pos + 4, pos + 7))
    IN  [tag |-> SubSeq(bytes, pos, pos + 3), len |-> n,
         body |-> SubSeq(bytes, pos + 8, pos + 7 + n), next |-> pos + 8 + n]

\* The header chunk is 14 bytes long.
MetaChunk == ChunkAt(buf, 15)
NoteChunk == ChunkAt(buf, MetaChunk.next)

\* C4: the tempo event of the metadata chunk carries round(60,000,000 / bpm)
\* in its three bytes.
C4_TempoPayload ==
    epc \in {"hits", "done"} =>
        /\ SubSeq(MetaChunk.body, 9, 12) = <<0, 255, 81, 3>>
        /\ BE(SubSeq(MetaChunk.body, 13, 15)) = (2 * 60000000 + trk.BPM) \div (2 * trk.BPM)

\* Reading a variable-length quantity at pos: its value and the position
\* after it.
RECURSIVE ReadVarint(_, _, _)
ReadVarint(bytes, pos, acc) ==
    IF pos > Len(bytes) THEN [val |-> -1, next |-> pos]
    ELSE IF bytes[pos] >= 128
         THEN ReadVarint(bytes, pos + 1, acc * 128 + (bytes[pos] - 128))
         ELSE [val |-> acc * 128 + bytes[pos], next |-> pos + 1]

\* The events of a track body from pos on: a delta-time and three bytes each.
RECURSIVE Events(_, _)
Events(bytes, pos) ==
    IF pos > Len(bytes) THEN <<>>
    ELSE LET d == ReadVarint(bytes, pos, 0)
         IN  IF d.next + 2 > Len(bytes)
             THEN <<[delta |-> -1, status |-> -1, d1 |-> -1, d2 |-> -1]>>
             ELSE <<[delta |-> d.val, status |-> bytes[d.next],
                     d1 |-> bytes[d.next + 1], d2 |-> bytes[d.next + 2]]>>
                  \o Events(bytes, d.next + 3)

\* The number of events of the first n hits.
RECURSIVE EventsBefore(_, _)
EventsBefore(hits, n) ==
    IF n = 0 THEN 0 ELSE EventsBefore(hits, n - 1) + 2 * Cardinality(hits[n].Notes)

====
